---------------------------- MODULE Spec2Model ----------------------------
(***************************************************************************)
(* Content loader of the blog: lib/posts (getSortedPostsData,              *)
(* getAllPostIds, getPostData) and lib/about (getAboutPageData).           *)
(*                                                                         *)
(* Strings (file names, ids, front-matter values, HTML) are sequences of   *)
(* code units, so that the regular expression /\.md$/, the template        *)
(* `${id}.md` and the relational operator < on strings are computed, not   *)
(* assumed.  A file text is a sequence of lines.  An object with dynamic   *)
(* keys ({ id, ...data }) is a function from key names to values.          *)
(***************************************************************************)
EXTENDS Integers, Sequences, FiniteSets, Bags, TLC

VARIABLES posts, about, call, out, libCalls, again, tasks, cache, earlier

vars == <<posts, about, call, out, libCalls, again, tasks, cache, earlier>>

\* The latest loader invocation taken alone.
loaderVars == <<call, out, libCalls, again>>

\* The page-generation steps of a build that are in flight together.
buildVars == <<tasks, cache, earlier>>

---------------------------------------------------------------------------
(* Bounds of the model. *)

\* Largest number of entries of the posts directory.
MaxPosts == 3

\* Largest number of page-generation steps in flight at once.
MaxTasks == 3

---------------------------------------------------------------------------
(* Strings. *)

c_dash == 45
c_dot == 46
c_zero == 48
c_d == 100
c_m == 109
c_slash == 47

\* The string ".md".
MdExt == <<c_dot, c_m, c_d>>

RECURSIVE StrLessFrom(_, _, _)
\* s < t on strings: the first differing code unit decides, a proper prefix
\* is smaller.
StrLessFrom(s, t, i) ==
    IF i > Len(t) THEN FALSE
    ELSE IF i > Len(s) THEN TRUE
    ELSE IF s[i] # t[i] THEN s[i] < t[i]
    ELSE StrLessFrom(s, t, i + 1)

StrLess(s, t) == StrLessFrom(s, t, 1)

\* n as exactly w decimal digits.
RECURSIVE Pad(_, _)
Pad(n, w) == IF w = 0 THEN <<>> ELSE Append(Pad(n \div 10, w - 1), c_zero + (n % 10))

\* The date y-m-d written as YYYY-MM-DD.
FormatISO(y, m, d) == Pad(y, 4) \o <<c_dash>> \o Pad(m, 2) \o <<c_dash>> \o Pad(d, 2)

---------------------------------------------------------------------------
(* Content files.  A line is a delimiter line (---), a `key: value` line,  *)
(* or a line of markdown: a paragraph, raw HTML or a fenced code block.    *)

Fence == [t |-> "fence", k |-> "", v |-> <<>>]
KV(key, val) == [t |-> "kv", k |-> key, v |-> val]
Para(txt) == [t |-> "p", k |-> "", v |-> txt]
RawHtml(txt) == [t |-> "html", k |-> "", v |-> txt]
Code(txt) == [t |-> "code", k |-> "", v |-> txt]

\* The object {}.
EmptyObject == [key \in {} |-> <<>>]

\* { ...obj, [key]: val }
SetKey(obj, key, val) ==
    [x \in DOMAIN obj \cup {key} |-> IF x = key THEN val ELSE obj[x]]

\* The YAML of a metadata block as a flat mapping.  A line that is no
\* `key: value` pair, or a key given twice, is malformed metadata.
RECURSIVE yamlLoad(_, _, _)
yamlLoad(block, i, acc) ==
    IF i > Len(block) THEN [ok |-> TRUE, data |-> acc]
    ELSE IF block[i].t # "kv" \/ block[i].k \in DOMAIN acc
         THEN [ok |-> FALSE, data |-> EmptyObject]
         ELSE yamlLoad(block, i + 1, SetKey(acc, block[i].k, block[i].v))

\* Index of the first delimiter line of s at or after i; Len(s) + 1 if none.
RECURSIVE closeIndex(_, _)
closeIndex(s, i) ==
    IF i > Len(s) THEN i
    ELSE IF s[i].t = "fence" THEN i
    ELSE closeIndex(s, i + 1)

\* matter(fileContents): the metadata block is looked for at the very start
\* of the file only; without one, data is empty and content is the whole
\* text.  An unclosed block runs to the end of the file.
matter(fileContents) ==
    IF Len(fileContents) = 0 \/ fileContents[1].t # "fence"
    THEN [ok |-> TRUE, data |-> EmptyObject, content |-> fileContents]
    ELSE LET str == Tail(fileContents)
             ci == closeIndex(str, 1)
             parsed == yamlLoad(SubSeq(str, 1, ci - 1), 1, EmptyObject)
         IN  [ok |-> parsed.ok, data |-> parsed.data,
              content |-> SubSeq(str, ci + 1, Len(str))]

---------------------------------------------------------------------------
(* Markdown to HTML.  The HTML is a sequence of element tags, each         *)
(* followed by its text.                                                   *)

h_p == 1
h_hr == 2
h_raw == 3
h_pre == 4
h_prism == 5

\* remark().use(html, { sanitize }).use(prism)?.process(content).toString()
RECURSIVE process(_, _, _)
process(content, sanitize, usePrism) ==
    IF content = <<>> THEN <<>>
    ELSE LET ln == Head(content)
             el == CASE ln.t = "fence" -> <<h_hr>>
                     [] ln.t = "html" -> IF sanitize THEN <<>>
                                         ELSE <<h_raw>> \o ln.v
                     [] ln.t = "code" -> IF usePrism THEN <<h_prism>> \o ln.v
                                         ELSE <<h_pre>> \o ln.v
                     [] OTHER -> <<h_p>> \o ln.v
         IN  el \o process(Tail(content), sanitize, usePrism)

---------------------------------------------------------------------------
(* The content store: the posts directory, as the sequence of its entries  *)
(* in the order the file system enumerates them, and the about file.       *)

\* fs.readdirSync(postsDirectory)
readdirSync(dir) == [i \in 1..Len(dir) |-> dir[i].name]

existsSync(dir, fileName) == \E i \in 1..Len(dir) : dir[i].name = fileName

\* fs.readFileSync(path.join(postsDirectory, fileName), "utf8")
readFileSync(dir, fileName) ==
    dir[CHOOSE i \in 1..Len(dir) : dir[i].name = fileName].text

---------------------------------------------------------------------------
(* lib/posts *)

\* stripMd that strips every trailing ".md", not just one.
RECURSIVE stripMdAll(_)
stripMdAll(fileName) ==
    LET n == Len(fileName)
    IN  IF n >= 3 /\ SubSeq(fileName, n - 2, n) = MdExt
        THEN stripMdAll(SubSeq(fileName, 1, n - 3))
        ELSE fileName

\* fileName.replace(/\.md$/, "")
stripMd(fileName) ==
    LET n == Len(fileName)
    IN  IF n >= 3 /\ SubSeq(fileName, n - 2, n) = MdExt
        THEN SubSeq(fileName, 1, n - 3)
        ELSE fileName

\* mdPath that appends ".md" only to an id that does not end in it.
mdPathIfMissing(id) ==
    LET n == Len(id)
    IN  IF n >= 3 /\ SubSeq(id, n - 2, n) = MdExt THEN id ELSE id \o MdExt

\* `${id}.md`
mdPath(id) == id \o MdExt

\* { ...base, ...data }: a key of data replaces the same key of base.
Spread(base, data) ==
    [key \in DOMAIN base \cup DOMAIN data |->
        IF key \in DOMAIN data THEN data[key] ELSE base[key]]

\* summaryRecord that gives a post without a title its id as title:
\* { id, title: id, ...matterResult.data }
summaryRecordTitled(id, data) ==
    Spread([key \in {"id", "title"} |-> id], data)

\* { id, ...matterResult.data }
summaryRecord(id, data) == Spread([key \in {"id"} |-> id], data)

\* postRecord with the front matter spread first:
\* { ...matterResult.data, id, contentHtml }
postRecordDataFirst(id, contentHtml, data) ==
    Spread(data, [key \in {"id", "contentHtml"} |->
                     IF key = "id" THEN id ELSE contentHtml])

\* { id, contentHtml, ...matterResult.data }
postRecord(id, contentHtml, data) ==
    Spread([key \in {"id", "contentHtml"} |->
               IF key = "id" THEN id ELSE contentHtml], data)

\* a.date < b.date; a missing date is undefined, and undefined < x and
\* x < undefined are both false.
dateLess(a, b) ==
    /\ "date" \in DOMAIN a
    /\ "date" \in DOMAIN b
    /\ StrLess(a["date"], b["date"])

\* compare with the two results exchanged: oldest first.
compareAscending(a, b) == IF dateLess(a, b) THEN -1 ELSE 1

\* compare that answers 0 for two records whose dates are not in order
\* either way.
compareThreeWay(a, b) ==
    IF dateLess(a, b) THEN 1 ELSE IF dateLess(b, a) THEN -1 ELSE 0

\* The comparison function handed to sort.
compare(a, b) == IF dateLess(a, b) THEN 1 ELSE -1

---------------------------------------------------------------------------
(* Array.prototype.sort as the engine of the build (Node.js, V8) runs it   *)
(* on an array shorter than 64 elements: the leading run is found (and     *)
(* reversed when it descends), the rest is inserted by binary search.      *)

Reverse(a) == [i \in 1..Len(a) |-> a[Len(a) + 1 - i]]

\* Last index of the run that starts at 1, scanning from idx.
RECURSIVE RunEnd(_, _, _)
RunEnd(a, isDescending, idx) ==
    IF idx > Len(a) THEN idx - 1
    ELSE LET order == compare(a[idx], a[idx - 1])
         IN  IF (isDescending /\ order >= 0) \/ (~isDescending /\ order < 0)
             THEN idx - 1
             ELSE RunEnd(a, isDescending, idx + 1)

CountAndMakeRun(a) ==
    LET isDescending == compare(a[2], a[1]) < 0
        runLength == RunEnd(a, isDescending, 3)
    IN  [arr |-> IF isDescending
                 THEN Reverse(SubSeq(a, 1, runLength))
                          \o SubSeq(a, runLength + 1, Len(a))
                 ELSE a,
         runLength |-> runLength]

\* Where pivot goes in a[left .. right - 1].
RECURSIVE BinarySearch(_, _, _, _)
BinarySearch(a, pivot, left, right) ==
    IF left >= right THEN left
    ELSE LET mid == left + ((right - left) \div 2)
         IN  IF compare(pivot, a[mid]) < 0
             THEN BinarySearch(a, pivot, left, mid)
             ELSE BinarySearch(a, pivot, mid + 1, right)

\* BinaryInsertionSort that puts the pivot in its place without moving the
\* elements after it.
RECURSIVE BinaryInsertionSortOverwrite(_, _)
BinaryInsertionSortOverwrite(a, start) ==
    IF start > Len(a) THEN a
    ELSE LET pivot == a[start]
             pos == BinarySearch(a, pivot, 1, start)
         IN  BinaryInsertionSortOverwrite([a EXCEPT ![pos] = pivot], start + 1)

\* a[1 .. start - 1] is sorted; insert a[start], a[start + 1], ...
RECURSIVE BinaryInsertionSort(_, _)
BinaryInsertionSort(a, start) ==
    IF start > Len(a) THEN a
    ELSE LET pivot == a[start]
             pos == BinarySearch(a, pivot, 1, start)
         IN  BinaryInsertionSort(
                 SubSeq(a, 1, pos - 1) \o <<pivot>> \o SubSeq(a, pos, start - 1)
                     \o SubSeq(a, start + 1, Len(a)),
                 start + 1)

\* sort that stops after the leading run.
sortRunOnly(a) == IF Len(a) < 2 THEN a ELSE CountAndMakeRun(a).arr

\* allPostsData.sort((a, b) => ...)
sort(a) ==
    IF Len(a) < 2 THEN a
    ELSE LET run == CountAndMakeRun(a)
         IN  IF run.runLength < Len(a)
             THEN BinaryInsertionSort(run.arr, run.runLength + 1)
             ELSE run.arr

---------------------------------------------------------------------------
(* The loader operations.  Each yields the outcome (status: "ok" or the    *)
(* error thrown), the value returned and the library calls made.           *)

Thrown(err, calls) == [status |-> err, value |-> <<>>, calls |-> calls]
Returned(value, calls) == [status |-> "ok", value |-> value, calls |-> calls]

\* mapPosts that leaves out a file whose metadata does not parse and goes
\* on with the others.
RECURSIVE mapPostsSkip(_, _, _)
mapPostsSkip(dir, fileNames, i) ==
    IF i > Len(fileNames) THEN [ok |-> TRUE, records |-> <<>>]
    ELSE LET fileName == fileNames[i]
             id == stripMd(fileName)
             fileContents == readFileSync(dir, fileName)
             matterResult == matter(fileContents)
             rest == mapPostsSkip(dir, fileNames, i + 1)
         IN  IF ~matterResult.ok THEN rest
             ELSE [ok |-> TRUE,
                   records |-> <<summaryRecord(id, matterResult.data)>>
                                   \o rest.records]

\* The map of getSortedPostsData over fileNames[i ..]: the records, or the
\* failure of the first file whose metadata does not parse.
RECURSIVE mapPosts(_, _, _)
mapPosts(dir, fileNames, i) ==
    IF i > Len(fileNames) THEN [ok |-> TRUE, records |-> <<>>]
    ELSE LET fileName == fileNames[i]
             id == stripMd(fileName)
             fileContents == readFileSync(dir, fileName)
             matterResult == matter(fileContents)
             rest == mapPosts(dir, fileNames, i + 1)
         IN  IF ~matterResult.ok \/ ~rest.ok
             THEN [ok |-> FALSE, records |-> <<>>]
             ELSE [ok |-> TRUE,
                   records |-> <<summaryRecord(id, matterResult.data)>>
                                   \o rest.records]

\* getSortedPostsData that saves the sorted list to a file of the posts
\* directory before returning it.
getSortedPostsDataSaved(dir) ==
    LET fileNames == readdirSync(dir)
        allPostsData == mapPosts(dir, fileNames, 1)
        calls == IF fileNames = <<>> THEN {"readdirSync"}
                 ELSE {"readdirSync", "readFileSync", "matter"}
    IN  IF ~allPostsData.ok THEN Thrown("YAMLException", calls)
        ELSE Returned(sort(allPostsData.records),
                      calls \cup {"writeFileSync"})

\* getSortedPostsData that keeps the array of the invocation before and
\* sorts it again.
getSortedPostsDataCached(dir) ==
    LET fileNames == readdirSync(dir)
        allPostsData == mapPosts(dir, fileNames, 1)
        calls == IF fileNames = <<>> THEN {"readdirSync"}
                 ELSE {"readdirSync", "readFileSync", "matter"}
    IN  IF ~allPostsData.ok THEN Thrown("YAMLException", calls)
        ELSE IF call.op = "getSortedPostsData" /\ out.status = "ok"
        THEN Returned(sort(out.value), calls)
        ELSE Returned(sort(allPostsData.records), calls)

\* getSortedPostsData whose comparison dereferences the date
\* (a.date.localeCompare(b.date)) and so fails on a post without one.
getSortedPostsDataDeref(dir) ==
    LET fileNames == readdirSync(dir)
        allPostsData == mapPosts(dir, fileNames, 1)
        calls == IF fileNames = <<>> THEN {"readdirSync"}
                 ELSE {"readdirSync", "readFileSync", "matter"}
    IN  IF ~allPostsData.ok THEN Thrown("YAMLException", calls)
        ELSE IF /\ Len(allPostsData.records) >= 2
                /\ \E i \in 1..Len(allPostsData.records) :
                      "date" \notin DOMAIN allPostsData.records[i]
        THEN Thrown("TypeError", calls)
        ELSE Returned(sort(allPostsData.records), calls)

getSortedPostsData(dir) ==
    LET fileNames == readdirSync(dir)
        allPostsData == mapPosts(dir, fileNames, 1)
        calls == IF fileNames = <<>> THEN {"readdirSync"}
                 ELSE {"readdirSync", "readFileSync", "matter"}
    IN  IF ~allPostsData.ok THEN Thrown("YAMLException", calls)
        ELSE Returned(sort(allPostsData.records), calls)

getAllPostIds(dir) ==
    LET fileNames == readdirSync(dir)
    IN  Returned([i \in 1..Len(fileNames) |->
                     [params |-> [id |-> stripMd(fileNames[i])]]],
                 {"readdirSync"})

\* getPostData that falls back to an empty post when the file is missing.
getPostDataDefault(dir, id) ==
    LET fullPath == mdPath(id)
        fileContents == IF existsSync(dir, fullPath)
                        THEN readFileSync(dir, fullPath) ELSE <<>>
        matterResult == matter(fileContents)
        contentHtml == process(matterResult.content, FALSE, TRUE)
    IN  IF ~matterResult.ok
        THEN Thrown("YAMLException", {"readFileSync", "matter"})
        ELSE Returned(<<postRecord(id, contentHtml, matterResult.data)>>,
                      {"readFileSync", "matter", "remark"})

getPostData(dir, id) ==
    LET fullPath == mdPath(id)
    IN  IF ~existsSync(dir, fullPath) THEN Thrown("ENOENT", {"readFileSync"})
        ELSE LET fileContents == readFileSync(dir, fullPath)
                 matterResult == matter(fileContents)
                 contentHtml == process(matterResult.content, FALSE, TRUE)
             IN  IF ~matterResult.ok
                 THEN Thrown("YAMLException", {"readFileSync", "matter"})
                 ELSE Returned(<<postRecord(id, contentHtml, matterResult.data)>>,
                               {"readFileSync", "matter", "remark"})

---------------------------------------------------------------------------
(* lib/about *)

\* { contentHtml, ...matterResult.data }
aboutRecord(contentHtml, data) ==
    Spread([key \in {"contentHtml"} |-> contentHtml], data)

\* aboutFile is the sequence of at most one file text: empty when
\* about/about.md does not exist.  The html plugin is used without options
\* (its default sanitizes) and without the prism plugin.
getAboutPageData(aboutFile) ==
    IF aboutFile = <<>> THEN Thrown("ENOENT", {"readFileSync"})
    ELSE LET fileContents == aboutFile[1]
             matterResult == matter(fileContents)
             contentHtml == process(matterResult.content, TRUE, FALSE)
         IN  IF ~matterResult.ok
             THEN Thrown("YAMLException", {"readFileSync", "matter"})
             ELSE Returned(<<aboutRecord(contentHtml, matterResult.data)>>,
                           {"readFileSync", "matter", "remark"})

---------------------------------------------------------------------------
(* The files the store is filled from. *)

Date1 == FormatISO(2024, 1, 1)
Date2 == FormatISO(2024, 3, 1)
Date3 == FormatISO(2024, 2, 1)
\* "2024-03": a string that is no YYYY-MM-DD date, and a prefix of Date2.
YearMonth == SubSeq(Date2, 1, 7)

TextDate1 == <<Fence, KV("title", <<c_m>>), KV("date", Date1), Fence,
               Para(<<c_m>>), Code(<<c_d>>)>>
TextDate2 == <<Fence, KV("date", Date2), Fence, RawHtml(<<c_d>>)>>
TextDate3 == <<Fence, KV("date", Date3), Fence, Para(<<c_d>>), Fence>>
\* A date string that is no YYYY-MM-DD date.
TextYearMonth == <<Fence, KV("date", YearMonth), Fence, Para(<<c_d>>)>>
\* Front matter that declares the keys the loader itself sets.
TextOwnKeys == <<Fence, KV("id", <<c_d, c_d>>), KV("contentHtml", <<c_d>>),
                 KV("date", Date1), Fence, Para(<<c_m>>)>>
\* No metadata block (hence no date).
TextPlain == <<Para(<<c_m>>), RawHtml(<<c_m>>)>>
\* Malformed metadata: a key given twice.
TextMalformed == <<Fence, KV("date", Date1), KV("date", Date2), Fence,
                   Para(<<c_m>>)>>

PostTexts == {TextDate1, TextDate2, TextDate3, TextYearMonth, TextOwnKeys,
              TextPlain, TextMalformed}

\* m.md, d.md, m, m.md.md
FileNames == {<<c_m>> \o MdExt, <<c_d>> \o MdExt, <<c_m>>,
              <<c_m>> \o MdExt \o MdExt}

\* What a file of each name may hold: m.md and d.md any of the texts, the
\* file without extension and the file with two extensions two texts each.
TextsOf(fileName) ==
    IF fileName = <<c_m>> THEN {TextPlain, TextDate1}
    ELSE IF fileName = <<c_m>> \o MdExt \o MdExt THEN {TextDate1, TextDate3}
    ELSE PostTexts

\* The ids pages are requested for: those of the file names, and dd, which
\* no file name yields.
RequestIds == {stripMd(f) : f \in FileNames} \cup {<<c_d, c_d>>}

AboutTexts == {<<Fence, KV("title", <<c_m>>), Fence, Para(<<c_m>>),
                 RawHtml(<<c_d>>)>>}

Idle == [op |-> "none", id |-> <<>>]
NoOutput == [status |-> "none", value |-> <<>>]

\* The hook of a page as it is called: op is the loader operation it
\* calls, id the id it passes.
NewTask(op, id) ==
    [op |-> op, id |-> id, pc |-> "called", error |-> "none",
     render |-> <<>>, html |-> <<>>, loaded |-> <<>>, props |-> <<>>,
     view |-> <<>>]

---------------------------------------------------------------------------
(* The state machine: edits of the content store by the author, and        *)
(* invocations of the loader by the page-generation hooks.  call and out   *)
(* are the latest invocation and what it yielded, libCalls the library     *)
(* calls it made; they are held until the page takes them (Consume), and   *)
(* the store is edited between builds, when no result is held.  again      *)
(* tells that the latest invocation repeated the one before it.            *)

Init ==
    /\ posts = <<>>
    /\ about = <<>>
    /\ call = Idle
    /\ out = NoOutput
    /\ libCalls = {}
    /\ again = FALSE
    /\ tasks = EmptyBag
    /\ cache = EmptyObject
    /\ earlier = <<>>

BetweenBuilds ==
    /\ call = Idle
    /\ UNCHANGED <<call, out, libCalls, again>>
    /\ UNCHANGED buildVars

\* A new file appears in the posts directory, at any place of the
\* enumeration.
AddPost ==
    /\ Len(posts) < MaxPosts
    /\ \E fileName \in FileNames, at \in 0..Len(posts) :
       \E text \in TextsOf(fileName) :
          /\ ~existsSync(posts, fileName)
          /\ posts' = SubSeq(posts, 1, at)
                          \o <<[name |-> fileName, text |-> text]>>
                          \o SubSeq(posts, at + 1, Len(posts))
    /\ UNCHANGED about
    /\ BetweenBuilds

\* A post file is rewritten in place.
EditPost ==
    /\ \E i \in 1..Len(posts) :
       \E text \in TextsOf(posts[i].name) :
          /\ text # posts[i].text
          /\ posts' = [posts EXCEPT ![i].text = text]
    /\ UNCHANGED about
    /\ BetweenBuilds

RemovePost ==
    /\ \E i \in 1..Len(posts) :
          posts' = SubSeq(posts, 1, i - 1) \o SubSeq(posts, i + 1, Len(posts))
    /\ UNCHANGED about
    /\ BetweenBuilds

WriteAbout ==
    /\ \E text \in AboutTexts :
          /\ about # <<text>>
          /\ about' = <<text>>
    /\ UNCHANGED posts
    /\ BetweenBuilds

RemoveAbout ==
    /\ about # <<>>
    /\ about' = <<>>
    /\ UNCHANGED posts
    /\ BetweenBuilds

Invoke(c, result) ==
    /\ call' = c
    /\ out' = [status |-> result.status, value |-> result.value]
    /\ libCalls' = result.calls
    /\ again' = (c = call)
    /\ UNCHANGED <<posts, about>>
    /\ UNCHANGED buildVars

\* The page-generation hook hands the result on.
Consume ==
    /\ call # Idle
    /\ call' = Idle
    /\ out' = NoOutput
    /\ libCalls' = {}
    /\ again' = FALSE
    /\ UNCHANGED <<posts, about>>
    /\ UNCHANGED buildVars

GetSortedPostsData ==
    Invoke([op |-> "getSortedPostsData", id |-> <<>>], getSortedPostsData(posts))

GetAllPostIds ==
    Invoke([op |-> "getAllPostIds", id |-> <<>>], getAllPostIds(posts))

GetPostData ==
    \E id \in RequestIds :
        Invoke([op |-> "getPostData", id |-> id], getPostData(posts, id))

GetAboutPageData ==
    Invoke([op |-> "getAboutPageData", id |-> <<>>], getAboutPageData(about))

Next ==
    \/ AddPost
    \/ EditPost
    \/ RemovePost
    \/ WriteAbout
    \/ RemoveAbout
    \/ Consume
    \/ GetSortedPostsData
    \/ GetAllPostIds
    \/ GetPostData
    \/ GetAboutPageData

Spec == Init /\ [][Next]_vars

---------------------------------------------------------------------------
(* A build: page-generation hooks in flight together.  getPostData and     *)
(* getAboutPageData are async functions that suspend once, at the await    *)
(* of the render; the hooks of the post page and of the about page         *)
(* suspend at the await of the loader.  A step of a task is what runs      *)
(* between two suspension points; steps of different tasks interleave in   *)
(* any order.  tasks is the bag of the hooks called in the build: two      *)
(* hooks called for the same page and at the same point are alike.  cache is the module-level mutable state of lib/posts and    *)
(* lib/about, which is none.  earlier is a record getPostData returned in  *)
(* the latest build that has ended with one, with the id it was asked for. *)

\* What the synchronous part of a loader leaves: an exception, or the
\* render it has started and awaits.
Rejected(err, mod) ==
    [status |-> err, data |-> EmptyObject, content |-> <<>>,
     sanitize |-> FALSE, prism |-> FALSE, mod |-> mod]
Suspended(data, content, sanitize, prism, mod) ==
    [status |-> "ok", data |-> data, content |-> content,
     sanitize |-> sanitize, prism |-> prism, mod |-> mod]

\* postBegin that remembers what it parsed for an id and reads a file only
\* the first time the id is asked for.
postBeginMemo(dir, id, mod) ==
    LET fullPath == mdPath(id)
    IN  IF id \in DOMAIN mod THEN [mod[id] EXCEPT !.mod = mod]
        ELSE IF ~existsSync(dir, fullPath) THEN Rejected("ENOENT", mod)
        ELSE LET fileContents == readFileSync(dir, fullPath)
                 matterResult == matter(fileContents)
                 parsed == Suspended(matterResult.data, matterResult.content,
                                     FALSE, TRUE, EmptyObject)
             IN  IF ~matterResult.ok THEN Rejected("YAMLException", mod)
                 ELSE [parsed EXCEPT !.mod = SetKey(mod, id, parsed)]

\* getPostData up to its await: the file is read and parsed, and the
\* render of the body is started with { sanitize: false } and prism.
postBegin(dir, id, mod) ==
    LET fullPath == mdPath(id)
    IN  IF ~existsSync(dir, fullPath) THEN Rejected("ENOENT", mod)
        ELSE LET fileContents == readFileSync(dir, fullPath)
                 matterResult == matter(fileContents)
             IN  IF ~matterResult.ok THEN Rejected("YAMLException", mod)
                 ELSE Suspended(matterResult.data, matterResult.content,
                                FALSE, TRUE, mod)

\* aboutBegin that renders an empty page when about.md is missing.
aboutBeginDefault(aboutFile, mod) ==
    LET fileContents == IF aboutFile = <<>> THEN <<>> ELSE aboutFile[1]
        matterResult == matter(fileContents)
    IN  IF ~matterResult.ok THEN Rejected("YAMLException", mod)
        ELSE Suspended(matterResult.data, matterResult.content,
                       TRUE, FALSE, mod)

\* aboutBegin that passes { sanitize: false } to the html plugin.
aboutBeginUnsanitized(aboutFile, mod) ==
    IF aboutFile = <<>> THEN Rejected("ENOENT", mod)
    ELSE LET fileContents == aboutFile[1]
             matterResult == matter(fileContents)
         IN  IF ~matterResult.ok THEN Rejected("YAMLException", mod)
             ELSE Suspended(matterResult.data, matterResult.content,
                            FALSE, FALSE, mod)

\* getAboutPageData up to its await: the html plugin is used without
\* options (its default sanitizes) and without the prism plugin.
aboutBegin(aboutFile, mod) ==
    IF aboutFile = <<>> THEN Rejected("ENOENT", mod)
    ELSE LET fileContents == aboutFile[1]
             matterResult == matter(fileContents)
         IN  IF ~matterResult.ok THEN Rejected("YAMLException", mod)
             ELSE Suspended(matterResult.data, matterResult.content,
                            TRUE, FALSE, mod)

\* afterBegin without the await: the loader goes on to build its record
\* while the render is pending, and contentHtml is not the rendered HTML.
afterBeginNoAwait(task, b) ==
    IF b.status # "ok"
    THEN [task EXCEPT !.pc = "failed", !.error = b.status]
    ELSE [task EXCEPT
            !.pc = "loaded",
            !.render = <<[data |-> b.data, content |-> b.content,
                          sanitize |-> b.sanitize, prism |-> b.prism]>>,
            !.loaded = <<IF task.op = "getPostData"
                         THEN postRecord(task.id, <<>>, b.data)
                         ELSE aboutRecord(<<>>, b.data)>>]

\* afterBegin with a hook that catches the exception of its loader and
\* returns empty props.
afterBeginCaught(task, b) ==
    IF b.status # "ok"
    THEN [task EXCEPT !.pc = "props", !.error = b.status,
                      !.props = <<EmptyObject>>]
    ELSE [task EXCEPT
            !.pc = "render",
            !.render = <<[data |-> b.data, content |-> b.content,
                          sanitize |-> b.sanitize, prism |-> b.prism]>>]

\* The task after the synchronous part b of its loader: the exception
\* rejects the promise of the loader and, through the await of the hook,
\* that of the hook; otherwise the loader is suspended at
\* `await remark()...process(matterResult.content)`.
afterBegin(task, b) ==
    IF b.status # "ok"
    THEN [task EXCEPT !.pc = "failed", !.error = b.status]
    ELSE [task EXCEPT
            !.pc = "render",
            !.render = <<[data |-> b.data, content |-> b.content,
                          sanitize |-> b.sanitize, prism |-> b.prism]>>]

\* rendering with one processor for all invocations, which holds the body
\* of one of the renders in flight.
renderingShared(ts, task) ==
    LET held == CHOOSE other \in BagToSet(ts) : other.pc = "render"
    IN  process(held.render[1].content, task.render[1].sanitize,
                task.render[1].prism)

\* What the render awaited by task resolves to, with the tasks ts in
\* flight: each invocation has its own processor, made by remark().
rendering(ts, task) ==
    process(task.render[1].content, task.render[1].sanitize,
            task.render[1].prism)

\* The loader resumed with the rendered file: contentHtml is its text and
\* the record is returned, which resolves the promise the hook awaits.
afterRender(task, processedContent) ==
    LET contentHtml == processedContent
        data == task.render[1].data
    IN  [task EXCEPT
            !.pc = "loaded",
            !.html = <<contentHtml>>,
            !.loaded = <<IF task.op = "getPostData"
                         THEN postRecord(task.id, contentHtml, data)
                         ELSE aboutRecord(contentHtml, data)>>]

\* The hook resumed with the record: return { props: { postData } }, or
\* { props: { aboutPageData } }.
afterLoaded(task) ==
    [task EXCEPT
        !.pc = "props",
        !.props = <<IF task.op = "getPostData"
                    THEN [postData |-> task.loaded[1]]
                    ELSE [aboutPageData |-> task.loaded[1]]>>]

\* The hook of a page whose loader is synchronous.
afterSync(task, result, props) ==
    IF result.status # "ok"
    THEN [task EXCEPT !.pc = "failed", !.error = result.status]
    ELSE [task EXCEPT !.pc = "props", !.props = <<props>>]

\* The about files of a build: the second one declares the key the loader
\* itself sets, and an id.
AboutOwnKeys == <<Fence, KV("contentHtml", <<c_d>>), KV("id", <<c_m>>),
                  Fence, Para(<<c_m>>), RawHtml(<<c_d>>)>>
BuildAbouts == {<<>>, <<AboutOwnKeys>>} \cup {<<text>> : text \in AboutTexts}

\* The posts directories of a build: empty, m.md alone, or d.md and m.md.
BuildTexts == {TextDate1, TextOwnKeys, TextPlain, TextMalformed}
BuildStores ==
    {<<>>}
    \cup {<<[name |-> mdPath(<<c_m>>), text |-> text]>> :
             text \in BuildTexts}
    \cup {<<[name |-> mdPath(<<c_d>>), text |-> TextDate2],
            [name |-> mdPath(<<c_m>>), text |-> text]>> :
             text \in BuildTexts}

\* The ids post pages are generated for.
BuildIds == {<<c_m>>, <<c_d>>}

InitBuild ==
    /\ posts \in BuildStores
    /\ about \in BuildAbouts
    /\ call = Idle
    /\ out = NoOutput
    /\ libCalls = {}
    /\ again = FALSE
    /\ tasks = EmptyBag
    /\ cache = EmptyObject
    /\ earlier = <<>>

\* getStaticPaths that lets pages be generated on demand for other ids.
getStaticPathsFallback(dir) ==
    LET paths == getAllPostIds(dir)
    IN  Returned([paths |-> paths.value, fallback |-> TRUE], paths.calls)

\* getStaticPaths of the post page: return { paths, fallback: false }
getStaticPaths(dir) ==
    LET paths == getAllPostIds(dir)
    IN  Returned([paths |-> paths.value, fallback |-> FALSE], paths.calls)

\* The routes of the post page the build has declared: what its call of
\* getStaticPaths returned, if it has made it.
Declared == {task \in BagToSet(tasks) : task.op = "getAllPostIds"}

\* The ids the framework calls getStaticProps of the post page with: those
\* of the declared paths and, only with a fallback, any id requested.
servedIds ==
    UNION {{task.props[1].paths[i].params.id :
                i \in 1..Len(task.props[1].paths)}
           \cup (IF task.props[1].fallback THEN BuildIds ELSE {}) :
           task \in Declared}

\* The pages of the build are out: the framework has written them.
Published == \E task \in BagToSet(tasks) : task.pc = "page"

\* A page hook can be called: the build has room for it and has not
\* written its pages.
CanStart ==
    /\ ~Published
    /\ BagCardinality(tasks) - Cardinality(Declared) < MaxTasks

\* The tasks with task replaced by what it has become.
Become(task, after) == (tasks (-) SetToBag({task})) (+) SetToBag({after})

\* getStaticProps of the post page is called for a route the framework
\* serves, and runs until getPostData suspends or throws.
StartPostPage ==
    /\ CanStart
    /\ \E id \in servedIds :
          LET b == postBegin(posts, id, cache)
          IN  /\ tasks' = tasks (+) SetToBag(
                              {afterBegin(NewTask("getPostData", id), b)})
              /\ cache' = b.mod
    /\ UNCHANGED <<posts, about, earlier, loaderVars>>

\* getStaticProps of the about page starts and runs until getAboutPageData
\* suspends or throws.
StartAboutPage ==
    /\ CanStart
    /\ LET b == aboutBegin(about, cache)
       IN  /\ tasks' = tasks (+) SetToBag(
                           {afterBegin(NewTask("getAboutPageData", <<>>), b)})
           /\ cache' = b.mod
    /\ UNCHANGED <<posts, about, earlier, loaderVars>>

\* getStaticProps of the home page: getSortedPostsData is synchronous.
StartIndexPage ==
    /\ CanStart
    /\ LET allPostsData == getSortedPostsData(posts)
       IN  tasks' = tasks (+) SetToBag(
                       {afterSync(NewTask("getSortedPostsData", <<>>),
                                  allPostsData,
                                  [allPostsData |-> allPostsData.value])})
    /\ UNCHANGED <<posts, about, cache, earlier, loaderVars>>

\* getStaticPaths of the post page is called, once in a build.
StartPaths ==
    /\ ~Published
    /\ Declared = {}
    /\ LET result == getStaticPaths(posts)
       IN  tasks' = tasks (+) SetToBag(
                       {afterSync(NewTask("getAllPostIds", <<>>), result,
                                  result.value)})
    /\ UNCHANGED <<posts, about, cache, earlier, loaderVars>>

\* The render a loader awaits completes, and the loader runs to its return.
RenderDone ==
    /\ \E task \in BagToSet(tasks) :
          /\ task.pc = "render"
          /\ tasks' = Become(task, afterRender(task, rendering(tasks, task)))
    /\ UNCHANGED <<posts, about, cache, earlier, loaderVars>>

\* The hook awaiting a loader resumes with the record and returns.
HookResume ==
    /\ \E task \in BagToSet(tasks) :
          /\ task.pc = "loaded"
          /\ tasks' = Become(task, afterLoaded(task))
    /\ UNCHANGED <<posts, about, cache, earlier, loaderVars>>

\* The tasks getPostData has returned a record to.
PostsLoaded ==
    {task \in BagToSet(tasks) :
        task.op = "getPostData" /\ task.loaded # <<>>}

BuildIdle == tasks = EmptyBag

\* Every hook that was called has returned or failed.
Settled == \A task \in BagToSet(tasks) : task.pc \in {"props", "failed"}

\* A hook has failed and none is in flight: the build stops with the
\* error and writes no page.
FailedOutright ==
    /\ Settled
    /\ \E task \in BagToSet(tasks) : task.pc = "failed"

\* <Link href={`/${post.id}`}>: the preview of a post links to its page.
PostPreview(post) == [href |-> <<c_slash>> \o post["id"], post |-> post]

\* Home that shows only the posts that have a date.
HomeDated(allPostsData) ==
    LET dated == SelectSeq(allPostsData,
                           LAMBDA post : "date" \in DOMAIN post)
    IN  [i \in 1..Len(dated) |->
            [key |-> dated[i]["id"], preview |-> PostPreview(dated[i])]]

\* allPostsData.map(post => <PostPreview key={post.id} post={post} />)
Home(allPostsData) ==
    [i \in 1..Len(allPostsData) |->
        [key |-> allPostsData[i]["id"],
         preview |-> PostPreview(allPostsData[i])]]

\* The task whose props have been written out as its page; the home page
\* is what Home renders from them.
asPage(task) ==
    [task EXCEPT
        !.pc = "page",
        !.view = IF task.op = "getSortedPostsData"
                 THEN <<Home(task.props[1].allPostsData)>>
                 ELSE <<>>]

\* Every hook has returned its props: the build writes the pages.
Publish ==
    /\ ~BuildIdle
    /\ \A task \in BagToSet(tasks) : task.pc = "props"
    /\ tasks' = [page \in {asPage(task) : task \in BagToSet(tasks)} |->
                    CopiesIn(CHOOSE task \in BagToSet(tasks) :
                                 asPage(task) = page, tasks)]
    /\ UNCHANGED <<posts, about, cache, earlier, loaderVars>>

\* The build is over, its pages written or failed.
EndBuild ==
    /\ Published \/ FailedOutright
    /\ tasks' = EmptyBag
    /\ IF PostsLoaded = {} THEN earlier' = earlier
       ELSE \E task \in PostsLoaded :
                earlier' = <<[id |-> task.id, record |-> task.loaded[1]]>>
    /\ UNCHANGED <<posts, about, cache, loaderVars>>

\* The author edits the content store between two builds.
EditStore ==
    /\ BuildIdle
    /\ posts' \in BuildStores
    /\ about' \in BuildAbouts
    /\ <<posts', about'>> # <<posts, about>>
    /\ UNCHANGED <<tasks, cache, earlier, loaderVars>>

NextBuild ==
    \/ StartPostPage
    \/ StartAboutPage
    \/ StartIndexPage
    \/ StartPaths
    \/ RenderDone
    \/ HookResume
    \/ Publish
    \/ EndBuild
    \/ EditStore

SpecBuild == InitBuild /\ [][NextBuild]_vars

\* A render that was started completes, a continuation whose promise has
\* resolved is run, and a build whose hooks have all returned writes its
\* pages.
FairBuild ==
    /\ WF_vars(RenderDone)
    /\ WF_vars(HookResume)
    /\ WF_vars(Publish)

SpecBuildFair == SpecBuild /\ FairBuild

---------------------------------------------------------------------------
(* Properties. *)

\* getSortedPostsData has returned a list.
ListReturned == call.op = "getSortedPostsData" /\ out.status = "ok"

\* getPostData has returned a record.
PostReturned == call.op = "getPostData" /\ out.status = "ok"

AllDated(records) == \A i \in 1..Len(records) : "date" \in DOMAIN records[i]

\* The records of the directory entries in enumeration order, before the
\* sort.
Enumerated == mapPosts(posts, readdirSync(posts), 1).records

\* fileName ends in ".md".
HasMdExtension(fileName) ==
    LET n == Len(fileName)
    IN  /\ n >= 3
        /\ fileName[n - 2] = c_dot
        /\ fileName[n - 1] = c_m
        /\ fileName[n] = c_d

\* id is fileName without its markdown extension.
IsIdOf(id, fileName) ==
    IF HasMdExtension(fileName) THEN id \o <<c_dot, c_m, c_d>> = fileName
    ELSE id = fileName

\* C1: when every post has a date string, the list getSortedPostsData
\* returns is sorted by date descending: no record's date is smaller, as a
\* string, than the date of the record after it; ties included.
C1_SortedByDateDescending ==
    (ListReturned /\ AllDated(out.value)) =>
        \A i \in 1..(Len(out.value) - 1) :
            ~StrLess(out.value[i]["date"], out.value[i + 1]["date"])

\* Three dated posts, two of them with the same date, that the directory
\* did not enumerate in the order returned.
C1_Witness ==
    /\ ListReturned
    /\ AllDated(out.value)
    /\ Len(out.value) = 3
    /\ \E i, j \in 1..3 :
          i # j /\ out.value[i]["date"] = out.value[j]["date"]
    /\ \E i, j \in 1..3 : out.value[i]["date"] # out.value[j]["date"]
    /\ Enumerated # out.value

\* The id getAllPostIds returned for the i-th entry.
IdAt(i) == out.value[i].params.id

\* getAllPostIds returns one identifier per directory entry, each the
\* entry's file name without its markdown extension.
OneIdPerEntry ==
    /\ out.status = "ok"
    /\ Len(out.value) = Len(posts)
    /\ \A i \in 1..Len(posts) : IsIdOf(IdAt(i), posts[i].name)

\* C2 as claimed: for every content of the posts directory, getAllPostIds
\* returns one identifier per entry, the file name without its markdown
\* extension, and no two identifiers are equal.
C2_IdsDistinct ==
    call.op = "getAllPostIds" =>
        /\ OneIdPerEntry
        /\ \A i, j \in 1..Len(out.value) : i # j => IdAt(i) # IdAt(j)

\* C2 as amended: one identifier per entry, the file name without its
\* markdown extension, and two identifiers are equal only for a pair of
\* entries named n and n.md.
C2_IdsDistinctUnlessPair ==
    call.op = "getAllPostIds" =>
        /\ OneIdPerEntry
        /\ \A i, j \in 1..Len(out.value) :
              (i # j /\ IdAt(i) = IdAt(j)) =>
                  \/ posts[i].name = posts[j].name \o <<c_dot, c_m, c_d>>
                  \/ posts[j].name = posts[i].name \o <<c_dot, c_m, c_d>>

\* Three entries, one of them without and one with two markdown
\* extensions, and three different identifiers.
C2_Witness ==
    /\ call.op = "getAllPostIds"
    /\ Len(out.value) = 3
    /\ \E i \in 1..3 : ~HasMdExtension(posts[i].name)
    /\ \E i \in 1..3 : HasMdExtension(IdAt(i))
    /\ \A i, j \in 1..3 : i # j => IdAt(i) # IdAt(j)

\* C3: getPostData(id), for an id that getAllPostIds returns on the same
\* directory, does not fail with file-not-found, and the record it returns
\* has the requested id.
C3_ListedIdLoads ==
    (/\ call.op = "getPostData"
     /\ \E i \in 1..Len(posts) :
           getAllPostIds(posts).value[i].params.id = call.id) =>
        /\ out.status # "ENOENT"
        /\ out.status = "ok" => out.value[1]["id"] = call.id

\* C4: the id of every record of getSortedPostsData and of the record of
\* getPostData is the file name without its extension, whatever the front
\* matter declares.
C4_IdFromFileName ==
    /\ PostReturned =>
          \E i \in 1..Len(posts) :
              /\ posts[i].name = call.id \o <<c_dot, c_m, c_d>>
              /\ IsIdOf(out.value[1]["id"], posts[i].name)
    /\ ListReturned =>
          \E p \in Permutations(1..Len(posts)) :
              \A i \in 1..Len(posts) :
                  IsIdOf(out.value[i]["id"], posts[p[i]].name)

\* C5: getPostData(id) for an id without a file <id>.md fails with the
\* not-found error, returns no record, and neither parses nor renders.
C5_MissingPostNotFound ==
    (/\ call.op = "getPostData"
     /\ \A i \in 1..Len(posts) :
           posts[i].name # call.id \o <<c_dot, c_m, c_d>>) =>
        /\ out.status = "ENOENT"
        /\ out.value = <<>>
        /\ "matter" \notin libCalls
        /\ "remark" \notin libCalls

\* A post is requested by the name of a file that has no markdown
\* extension, in a directory that holds other posts.
C5_Witness ==
    /\ call.op = "getPostData"
    /\ out.status = "ENOENT"
    /\ Len(posts) >= 2
    /\ \E i \in 1..Len(posts) : posts[i].name = call.id
    /\ \A i \in 1..Len(posts) :
          posts[i].name # call.id \o <<c_dot, c_m, c_d>>

\* The posts directory enumerated in the order p.
Reordered(p) == [i \in 1..Len(posts) |-> posts[p[i]]]

\* The list is the same whatever the order of enumeration of the files.
SameForEveryEnumeration ==
    \A p \in Permutations(1..Len(posts)) :
        getSortedPostsData(Reordered(p)).value = out.value

\* C6: for a fixed set of post files, each with a date, getSortedPostsData
\* returns the same sequence for every order of enumeration, equal dates
\* included.
C6_OrderIndependent ==
    (ListReturned /\ AllDated(out.value)) => SameForEveryEnumeration

IsDigit(c) == c \in c_zero..(c_zero + 9)

\* s has the format YYYY-MM-DD.
IsISODate(s) ==
    /\ Len(s) = 10
    /\ s[5] = c_dash
    /\ s[8] = c_dash
    /\ \A i \in {1, 2, 3, 4, 6, 7, 9, 10} : IsDigit(s[i])

\* The number written by the digits s[i .. j].
RECURSIVE Number(_, _, _)
Number(s, i, j) ==
    IF i > j THEN 0 ELSE 10 * Number(s, i, j - 1) + (s[j] - c_zero)

\* The place of a YYYY-MM-DD date in time: later dates have larger numbers.
Chronological(s) ==
    (Number(s, 1, 4) * 12 + Number(s, 6, 7)) * 31 + Number(s, 9, 10)

DistinctISODates(records) ==
    /\ AllDated(records)
    /\ \A i \in 1..Len(records) : IsISODate(records[i]["date"])
    /\ \A i, j \in 1..Len(records) :
          i # j => records[i]["date"] # records[j]["date"]

\* C7: posts with pairwise distinct YYYY-MM-DD dates are returned most
\* recent first, in the same sequence whatever the order of enumeration.
C7_ReverseChronological ==
    (ListReturned /\ DistinctISODates(out.value)) =>
        /\ \A i \in 1..(Len(out.value) - 1) :
              Chronological(out.value[i]["date"])
                  > Chronological(out.value[i + 1]["date"])
        /\ SameForEveryEnumeration

\* Files dated 2024-01-01, 2024-03-01, 2024-02-01, enumerated in this
\* order, are returned as 2024-03-01, 2024-02-01, 2024-01-01.
C7_Witness ==
    /\ ListReturned
    /\ Len(out.value) = 3
    /\ AllDated(out.value)
    /\ [i \in 1..3 |-> Enumerated[i]["date"]]
          = <<FormatISO(2024, 1, 1), FormatISO(2024, 3, 1), FormatISO(2024, 2, 1)>>
    /\ [i \in 1..3 |-> out.value[i]["date"]]
          = <<FormatISO(2024, 3, 1), FormatISO(2024, 2, 1), FormatISO(2024, 1, 1)>>

IsSummaryOf(r, entry) ==
    LET data == matter(entry.text).data
    IN  /\ DOMAIN r = {"id"} \cup DOMAIN data
        /\ \A key \in DOMAIN data : r[key] = data[key]
        /\ "id" \notin DOMAIN data => IsIdOf(r["id"], entry.name)

\* C9: getSortedPostsData never renders, and the list it returns holds one
\* record per file of the directory, none lost or duplicated, each the id
\* with all the front-matter fields of its file.
C9_MetadataOnly ==
    call.op = "getSortedPostsData" =>
        /\ "remark" \notin libCalls
        /\ out.status = "ok" =>
              /\ Len(out.value) = Len(posts)
              /\ \E p \in Permutations(1..Len(posts)) :
                    \A i \in 1..Len(posts) :
                        IsSummaryOf(out.value[i], posts[p[i]])

\* Three files with different front matter, one without any, returned in
\* another order than enumerated.
C9_Witness ==
    /\ ListReturned
    /\ Len(out.value) = 3
    /\ Enumerated # out.value
    /\ \E i \in 1..3 : DOMAIN out.value[i] = {"id"}
    /\ \E i \in 1..3 : "title" \in DOMAIN out.value[i]
    /\ \A i, j \in 1..3 : i # j => posts[i].text # posts[j].text

\* C10: the contentHtml of the record getPostData returns is the HTML of
\* the body of the file, rendered unsanitized and highlighted, whatever
\* the front matter declares.
C10_ContentHtmlRendered ==
    PostReturned =>
        \E i \in 1..Len(posts) :
            /\ posts[i].name = call.id \o <<c_dot, c_m, c_d>>
            /\ out.value[1]["contentHtml"]
                  = process(matter(posts[i].text).content, FALSE, TRUE)

\* The lines of the metadata block of a file: those after the opening
\* delimiter and before the next one.
MetadataLines(text) ==
    IF text = <<>> \/ text[1] # Fence THEN {}
    ELSE {j \in 2..Len(text) : \A n \in 2..j : text[n] # Fence}

\* Every field of the metadata block of text is a field of r, with the
\* value the file gives it.
CarriesFrontMatter(r, text) ==
    \A j \in MetadataLines(text) :
        /\ text[j].k \in DOMAIN r
        /\ r[text[j].k] = text[j].v

Malformed(text) ==
    \E j \in MetadataLines(text) :
        \/ text[j].t # "kv"
        \/ \E n \in MetadataLines(text) : n # j /\ text[n].k = text[j].k

ReadOnlyCalls == {"readdirSync", "readFileSync", "matter", "remark"}

\* C17: a step in which a loader operation runs, whether it returns or
\* throws, leaves every file of the posts directory and the about file as
\* they were, and calls the file system only to read.
C17_StoreReadOnly ==
    [][call' # Idle =>
          /\ posts' = posts
          /\ about' = about
          /\ libCalls' \subseteq ReadOnlyCalls]_vars

\* getPostData has failed on the metadata of its file, in a full directory
\* next to an about file.
C17_Witness ==
    /\ call.op = "getPostData"
    /\ out.status = "YAMLException"
    /\ Len(posts) = 3
    /\ about # <<>>

\* The text of a file does not start with a metadata block.
NoMetadataBlock(text) == text = <<>> \/ text[1] # Fence

\* C20: for a file without a metadata block, getPostData returns exactly
\* the fields id and contentHtml, the id requested and the HTML of the
\* whole text of the file, and the list of getSortedPostsData has for it a
\* record whose only field is the id of the file.
C20_NoMetadataBlock ==
    /\ \A i \in 1..Len(posts) :
          (/\ PostReturned
           /\ posts[i].name = mdPath(call.id)
           /\ NoMetadataBlock(posts[i].text))
          => /\ DOMAIN out.value[1] = {"id", "contentHtml"}
             /\ out.value[1]["id"] = call.id
             /\ out.value[1]["contentHtml"]
                   = process(posts[i].text, FALSE, TRUE)
    /\ ListReturned =>
          \E p \in Permutations(1..Len(posts)) :
              \A i \in 1..Len(posts) :
                  NoMetadataBlock(posts[p[i]].text)
                  => /\ DOMAIN out.value[i] = {"id"}
                     /\ IsIdOf(out.value[i]["id"], posts[p[i]].name)

\* getPostData has returned the record of a file that is a paragraph and
\* a line of raw HTML, without metadata.
C20_Witness ==
    /\ PostReturned
    /\ DOMAIN out.value[1] = {"id", "contentHtml"}
    /\ out.value[1]["contentHtml"] # <<>>
    /\ \E i \in 1..Len(posts) :
          /\ posts[i].name = mdPath(call.id)
          /\ posts[i].text = TextPlain

---------------------------------------------------------------------------
(* Properties of a build. *)

\* The render of task has completed.
Rendered(task) == task.html # <<>>

\* The lines of raw HTML of a markdown body.
RawHtmlLines(content) ==
    {j \in 1..Len(content) : content[j].t = "html"}

\* The raw HTML elements of a rendered text.
RawHtmlElements(contentHtml) ==
    {j \in 1..Len(contentHtml) : contentHtml[j] = h_raw}

\* The rendered text of task has every line of raw HTML of its body.
Unsanitized(task) ==
    /\ task.html[1] = process(task.render[1].content, FALSE,
                                  task.render[1].prism)
    /\ Cardinality(RawHtmlElements(task.html[1]))
          = Cardinality(RawHtmlLines(task.render[1].content))

\* C12 as stated: the render of a post and the render of the about page
\* both run with sanitization off, so that both rendered texts keep the
\* raw HTML of their body.
C12_BothUnsanitized ==
    \A task \in BagToSet(tasks) :
        Rendered(task) => /\ ~task.render[1].sanitize
                       /\ Unsanitized(task)

\* C12, amended: the render of a post runs with sanitization off and
\* keeps the raw HTML of the body; the render of the about page is given
\* no sanitize option, runs with the default of the html plugin, which
\* sanitizes, and its text has no raw HTML element.
C12_PostUnsanitizedAboutDefault ==
    \A task \in BagToSet(tasks) :
        Rendered(task) =>
            /\ task.op = "getPostData"
                  => /\ ~task.render[1].sanitize
                     /\ Unsanitized(task)
            /\ task.op = "getAboutPageData"
                  => /\ task.render[1].sanitize
                     /\ RawHtmlElements(task.html[1]) = {}
                     /\ task.html[1]
                           = process(task.render[1].content, TRUE, FALSE)

\* A post and the about page have been rendered in the same build, both
\* from a body with a line of raw HTML: the text of the post has it, the
\* text of the about page does not.
C12_Witness ==
    \E task, other \in BagToSet(tasks) :
        /\ task.op = "getPostData"
        /\ other.op = "getAboutPageData"
        /\ Rendered(task)
        /\ Rendered(other)
        /\ RawHtmlLines(task.render[1].content) # {}
        /\ RawHtmlLines(other.render[1].content) # {}
        /\ RawHtmlElements(task.html[1]) # {}
        /\ RawHtmlElements(other.html[1]) = {}

\* The keys of the metadata block of a file.
MetadataKeys(text) == {text[j].k : j \in MetadataLines(text)}

\* C13: the record getAboutPageData returns has the field contentHtml and
\* the fields of the front matter of the about file and no other,
\* contentHtml is the HTML rendered from the body of the about file, and
\* the record has an id only if the front matter declares one.
C13_AboutRecordShape ==
    \A task \in BagToSet(tasks) :
        (task.op = "getAboutPageData" /\ task.loaded # <<>>) =>
            LET record == task.loaded[1]
            IN  /\ DOMAIN record = {"contentHtml"} \cup MetadataKeys(about[1])
                /\ record["contentHtml"] = task.html[1]
                /\ "id" \in DOMAIN record => "id" \in MetadataKeys(about[1])

\* C15: when about.md is missing, getAboutPageData throws the not-found
\* error of the read before anything is rendered, the hook of the about
\* page fails with that error, and neither a record nor props exist.
C15_MissingAboutNotFound ==
    \A task \in BagToSet(tasks) :
        (task.op = "getAboutPageData" /\ about = <<>>) =>
            /\ task.pc = "failed"
            /\ task.error = "ENOENT"
            /\ task.render = <<>>
            /\ task.loaded = <<>>
            /\ task.props = <<>>

\* The hook of the about page has failed for want of the file, in a build
\* whose posts directory has files.
C15_Witness ==
    /\ about = <<>>
    /\ posts # <<>>
    /\ \E task \in BagToSet(tasks) :
          /\ task.op = "getAboutPageData"
          /\ task.pc = "failed"
          /\ task.error = "ENOENT"

\* The outcome of task is that of the files as they are now.
FromCurrentFiles(task) ==
        /\ task.op = "getPostData" =>
              /\ (task.pc = "failed" /\ task.error = "ENOENT")
                    <=> ~existsSync(posts, mdPath(task.id))
              /\ \A i \in 1..Len(posts) :
                    posts[i].name = mdPath(task.id) =>
                        /\ (task.pc = "failed") <=> Malformed(posts[i].text)
                        /\ task.loaded # <<>> =>
                              /\ CarriesFrontMatter(task.loaded[1],
                                                    posts[i].text)
                              /\ DOMAIN task.loaded[1]
                                    = {"id", "contentHtml"}
                                        \cup MetadataKeys(posts[i].text)
                              /\ task.html[1]
                                    = process(matter(posts[i].text).content,
                                              FALSE, TRUE)
        /\ task.op = "getAboutPageData" =>
              /\ (task.pc = "failed") <=> about = <<>>
              /\ task.loaded # <<>> =>
                    CarriesFrontMatter(task.loaded[1], about[1])
        /\ (task.op = "getSortedPostsData" /\ task.props # <<>>) =>
              LET list == task.props[1].allPostsData
              IN  /\ Len(list) = Len(posts)
                  /\ \E p \in Permutations(1..Len(posts)) :
                        \A i \in 1..Len(posts) :
                            CarriesFrontMatter(list[i], posts[p[i]].text)
        /\ task.op = "getAllPostIds" =>
              LET paths == task.props[1].paths
              IN  /\ Len(paths) = Len(posts)
                  /\ \A i \in 1..Len(posts) :
                        IsIdOf(paths[i].params.id, posts[i].name)

\* C16: whatever builds and edits came before, the outcome of every
\* loader invocation is that of the files as they are when it runs: the
\* files that exist now, with the front matter and the body they have now.
C16_ResultFromCurrentFiles == \A task \in BagToSet(tasks) : FromCurrentFiles(task)

\* getPostData has returned a record for an id for which it returned
\* another record in an earlier build, the file having been edited
\* between the two builds.
C16_Witness ==
    /\ earlier # <<>>
    /\ \E task \in PostsLoaded :
          /\ task.id = earlier[1].id
          /\ task.loaded[1] # earlier[1].record

\* C18: a loader has returned its record only when its render has
\* completed, and the contentHtml of the record is then the rendered text
\* unless the front matter declares its own; a hook has produced its props
\* only when its loader has returned, and the props hold that record.
C18_RenderAwaited ==
    \A task \in BagToSet(tasks) :
            /\ task.loaded # <<>> =>
                  /\ task.pc \in {"loaded", "props", "page"}
                  /\ Rendered(task)
                  /\ task.html[1] = rendering(tasks, task)
                  /\ "contentHtml" \in DOMAIN task.loaded[1]
                  /\ "contentHtml" \notin DOMAIN task.render[1].data
                        => task.loaded[1]["contentHtml"] = task.html[1]
            /\ (task.op \in {"getPostData", "getAboutPageData"}
                  /\ task.props # <<>>) =>
                  /\ task.pc \in {"props", "page"}
                  /\ task.loaded # <<>>
                  /\ task.op = "getPostData"
                        => task.props[1] = [postData |-> task.loaded[1]]
                  /\ task.op = "getAboutPageData"
                        => task.props[1] = [aboutPageData |-> task.loaded[1]]
            /\ task.pc = "render" =>
                  task.loaded = <<>> /\ task.props = <<>>
            /\ task.pc = "loaded" => task.props = <<>>

\* The hook of a post page has produced its props with the rendered text
\* of a body that has a code block, while the render of the about page is
\* still awaited.
C18_Witness ==
    \E task, other \in BagToSet(tasks) :
        /\ task.op = "getPostData"
        /\ task.pc = "props"
        /\ \E j \in 1..Len(task.props[1].postData["contentHtml"]) :
              task.props[1].postData["contentHtml"][j] = h_prism
        /\ other.op = "getAboutPageData"
        /\ other.pc = "render"

\* The record a loader invocation returns when it runs alone.
Alone(task) ==
    IF task.op = "getPostData" THEN getPostData(posts, task.id)
    ELSE getAboutPageData(about)

\* C19: with loader invocations in flight together and their steps
\* interleaved in any order, the module-level state stays as it was, the
\* tasks hold nothing of one another, and each invocation that has
\* returned or thrown has done what it does when run alone on the files.
C19_NoInterference ==
    /\ cache = EmptyObject
    /\ \A task \in BagToSet(tasks) :
          task.op \in {"getPostData", "getAboutPageData"} =>
              /\ task.pc = "failed"
                    => task.error = Alone(task).status
              /\ task.pc # "failed" => Alone(task).status = "ok"
              /\ task.loaded # <<>>
                    => task.loaded = Alone(task).value

\* Two getPostData invocations, for different ids, and a
\* getAboutPageData invocation have been in flight together: the first
\* has returned its record while the other two still await their render.
C19_Witness ==
    \E task, other, third \in BagToSet(tasks) :
        /\ task.op = "getPostData"
        /\ task.loaded # <<>>
        /\ other.op = "getPostData"
        /\ other.id # task.id
        /\ other.pc = "render"
        /\ third.op = "getAboutPageData"
        /\ third.pc = "render"

---------------------------------------------------------------------------
(* Properties of the order of the list, of the routes and of the ids. *)

\* C21: posts with equal dates are returned in the order in which their
\* files are enumerated: the list is an arrangement of the records of the
\* files in which, of two records with the same date, the one whose file
\* is enumerated first comes first.
C21_TiesKeepEnumerationOrder ==
    ListReturned =>
        \E p \in Permutations(1..Len(posts)) :
            /\ \A k \in 1..Len(posts) : out.value[k] = Enumerated[p[k]]
            /\ \A k, l \in 1..Len(posts) :
                  (/\ k < l
                   /\ "date" \in DOMAIN out.value[k]
                   /\ "date" \in DOMAIN out.value[l]
                   /\ out.value[k]["date"] = out.value[l]["date"])
                  => p[k] < p[l]

\* The ids of the paths a call of getStaticPaths has declared.
RouteIds(declared) ==
    {declared.props[1].paths[i].params.id :
        i \in 1..Len(declared.props[1].paths)}

\* C22: the routes of the post page are the ids getAllPostIds returns for
\* the directory, one per entry and without fallback; the hook of the post
\* page runs only for an id among them, calls getPostData with that id,
\* and hands the record it returns on, unchanged, as postData.
C22_RoutesAreListedIds ==
    /\ \A declared \in Declared :
          /\ declared.props[1].paths = getAllPostIds(posts).value
          /\ Len(declared.props[1].paths) = Len(posts)
          /\ \A i \in 1..Len(posts) :
                IsIdOf(declared.props[1].paths[i].params.id, posts[i].name)
          /\ ~declared.props[1].fallback
    /\ \A task \in BagToSet(tasks) :
          task.op = "getPostData" =>
              /\ \E declared \in Declared : task.id \in RouteIds(declared)
              /\ task.loaded # <<>>
                    => task.loaded = getPostData(posts, task.id).value
              /\ task.props # <<>>
                    => task.props[1] = [postData |-> task.loaded[1]]

\* The page of one post has been written while another id that is asked
\* for has no file, hence no route and no page.
C22_Witness ==
    /\ \E task \in BagToSet(tasks) :
          task.op = "getPostData" /\ task.pc = "page"
    /\ \E id \in BuildIds : id \notin servedIds
    /\ \A task \in BagToSet(tasks) :
          task.op = "getPostData" => task.id \in servedIds

PageDataComplete(task) ==
    /\ task.error = "none"
    /\ task.props # <<>>
    /\ task.op \in {"getPostData", "getAboutPageData"} =>
          /\ task.loaded # <<>>
          /\ "contentHtml" \in DOMAIN task.loaded[1]
    /\ task.op = "getSortedPostsData" =>
          Len(task.props[1].allPostsData) = Len(posts)
    /\ task.op = "getAllPostIds" => Len(task.props[1].paths) = Len(posts)

\* C24: pages are written only when every hook of the build has returned
\* with all its data, never next to a hook that failed; and a build in
\* which a hook has been called comes to write its pages or to fail
\* outright.
C24_BuildCompletesOrFails ==
    /\ [](Published =>
             \A task \in BagToSet(tasks) :
                 task.pc = "page" /\ PageDataComplete(task))
    /\ ~BuildIdle ~> (Published \/ FailedOutright)

\* The hook of a post page has failed while the hook of the about page
\* has returned its props: the build has failed and no page is written.
C24_Witness ==
    /\ FailedOutright
    /\ ~Published
    /\ \E task, other \in BagToSet(tasks) :
          /\ task.op = "getPostData"
          /\ task.pc = "failed"
          /\ other.op = "getAboutPageData"
          /\ other.pc = "props"

\* The ids of the records of the list returned.
ListedIds == {out.value[i]["id"] : i \in 1..Len(out.value)}

\* C25: the ids of the records getSortedPostsData returns are, as a set,
\* the ids getAllPostIds returns for the same directory: every link of the
\* home page has its page, and every page its link.
C25_ListedIdsAreRouteIds ==
    ListReturned =>
        ListedIds = {getAllPostIds(posts).value[i].params.id :
                        i \in 1..Len(posts)}

\* C26: the records getSortedPostsData returns have pairwise distinct ids,
\* whatever the directory holds.
C26_ListedIdsDistinct ==
    ListReturned =>
        \A i, j \in 1..Len(out.value) :
            i # j => out.value[i]["id"] # out.value[j]["id"]

\* The file name getPostData resolves the id that getAllPostIds returned
\* for the i-th entry to.
ResolvedAt(i) == mdPath(IdAt(i))

\* C27: deriving the id and resolving the path are inverse on markdown
\* files: for an entry whose name ends in ".md", getAllPostIds returns the
\* name without its last three characters (one ".md", even when the rest
\* ends in ".md" again) and getPostData resolves that id to the name; for
\* an entry whose name does not end in ".md", the id is the name and
\* getPostData resolves it to another name, the name followed by ".md",
\* so that it finds the file only if an entry of that longer name exists.
C27_StripThenAppend ==
    /\ (call.op = "getAllPostIds" /\ out.status = "ok") =>
          \A i \in 1..Len(posts) :
              LET f == posts[i].name
              IN  IF HasMdExtension(f)
                  THEN /\ IdAt(i) = SubSeq(f, 1, Len(f) - 3)
                       /\ ResolvedAt(i) = f
                  ELSE /\ IdAt(i) = f
                       /\ ResolvedAt(i) # f
                       /\ ResolvedAt(i) = f \o <<c_dot, c_m, c_d>>
    /\ call.op = "getPostData" =>
          (out.status = "ENOENT" <=>
              \A i \in 1..Len(posts) :
                  posts[i].name # call.id \o <<c_dot, c_m, c_d>>)

\* getAllPostIds has returned the ids of an entry with two markdown
\* extensions, whose id still ends in ".md", and of an entry with none,
\* whose id resolves to a name that is not in the directory.
C27_Witness ==
    /\ call.op = "getAllPostIds"
    /\ out.status = "ok"
    /\ \E i \in 1..Len(posts) :
          /\ HasMdExtension(posts[i].name)
          /\ HasMdExtension(IdAt(i))
          /\ ResolvedAt(i) = posts[i].name
    /\ \E i \in 1..Len(posts) :
          /\ ~HasMdExtension(posts[i].name)
          /\ ~existsSync(posts, ResolvedAt(i))

\* The file has no date field in its front matter.
Undated(text) == "date" \notin DOMAIN matter(text).data

\* C28: when one post or more has no date, and the metadata of every file
\* parses, getSortedPostsData still returns, without an error, and the
\* list it returns holds the record of every file exactly once: it is a
\* rearrangement of the records in enumeration order.
C28_UndatedStillListed ==
    (/\ call.op = "getSortedPostsData"
     /\ \A i \in 1..Len(posts) : ~Malformed(posts[i].text)
     /\ \E i \in 1..Len(posts) : Undated(posts[i].text)) =>
        /\ out.status = "ok"
        /\ Len(out.value) = Len(posts)
        /\ \E p \in Permutations(1..Len(posts)) :
              \A i \in 1..Len(posts) : out.value[i] = Enumerated[p[i]]

\* The list of three files has been returned, one of them without a date
\* and enumerated between two files of different dates, and the order
\* returned is not the order enumerated.
C28_Witness ==
    /\ ListReturned
    /\ Len(posts) = 3
    /\ Undated(posts[2].text)
    /\ ~Undated(posts[1].text)
    /\ ~Undated(posts[3].text)
    /\ matter(posts[1].text).data["date"] # matter(posts[3].text).data["date"]
    /\ out.value # Enumerated

\* a.date < b.date as the language evaluates it on two records: false when
\* either date is missing.
DateBefore(a, b) ==
    IF "date" \in DOMAIN a /\ "date" \in DOMAIN b
    THEN StrLess(a["date"], b["date"]) ELSE FALSE

\* C29: on any two records of the list the comparison function handed to
\* sort answers 1 when the first one's date is smaller than the second
\* one's and -1 otherwise, never 0; on two records of equal dates it
\* answers -1 whichever comes first.
C29_CompareNeverZero ==
    ListReturned =>
        \A i, j \in 1..Len(out.value) :
            LET a == out.value[i]
                b == out.value[j]
            IN  /\ compare(a, b) # 0
                /\ compare(a, b) = (IF DateBefore(a, b) THEN 1 ELSE -1)
                /\ (AllDated(<<a, b>>) /\ a["date"] = b["date"]) =>
                      /\ compare(a, b) = -1
                      /\ compare(b, a) = -1

\* The list returned holds two different records of the same date, on
\* which the comparison answers -1 both ways, and a record of a smaller
\* date, on which it answers 1 one way and -1 the other.
C29_Witness ==
    /\ ListReturned
    /\ \E i, j \in 1..Len(out.value) :
          /\ i # j
          /\ AllDated(<<out.value[i], out.value[j]>>)
          /\ out.value[i]["date"] = out.value[j]["date"]
          /\ compare(out.value[i], out.value[j]) = -1
          /\ compare(out.value[j], out.value[i]) = -1
    /\ \E i, j \in 1..Len(out.value) :
          /\ compare(out.value[i], out.value[j]) = 1
          /\ compare(out.value[j], out.value[i]) = -1

=============================================================================
